---- MODULE Spec2Model ----
(***************************************************************************)
(* Model of the bytebeat extension "yoog" (src/unnamed/part_000): the      *)
(* controller (BytebeatExtension), the AudioWorklet processor              *)
(* (BytebeatProcessor) and the ScriptProcessor fallback, with the ordered  *)
(* asynchronous message channel between controller and worklet.            *)
(*                                                                         *)
(* Representation.                                                         *)
(*  - A formula text is a sequence of tokens.  Operands: "t" (time index), *)
(*    "1" (literal), "u" (an undeclared identifier: evaluating it throws   *)
(*    a ReferenceError), "r" (the sub-expression (t&&u): 0 at t = 0,       *)
(*    throws at any other t), "this" (a forbidden word, evaluates to 0     *)
(*    after |0), "fb" and "d" (the whole ERROR_FALLBACK_FORMULA and the    *)
(*    whole default formula).  "+" is the binary operator and " " is       *)
(*    white space.  The length of a text is its number of tokens.          *)
(*  - A compiled function is the text it was compiled from; NoFunction     *)
(*    stands for null.                                                     *)
(*  - Volume is counted in units of 1/VolumeUnit; a sample is the integer  *)
(*    SampleUnit * (its real value), so 1.0 is SampleUnit.                 *)
(*  - The clock t is a binary fraction of limited precision, kept as the   *)
(*    integer ClockGrid * t; the increment logicalS / sampleRate is rounded *)
(*    to the nearest multiple of 1 / ClockGrid, as the division rounds it  *)
(*    to the nearest double.                                               *)
(*  - The VALUE of setProperty is counted in units of 1/VolumeUnit.        *)
(*  - Sizes and rates are scaled down; the scaled values are definitions.  *)
(***************************************************************************)
EXTENDS Integers, Sequences, FiniteSets, TLC

VARIABLES
    env,        \* the platform: [workletAvailable, evalAllowed, scriptAvailable, sampleRate]
    ext,        \* the BytebeatExtension object (controller and script fallback state)
    proc,       \* the BytebeatProcessor object of the live worklet node
    toNode,     \* messages posted to the worklet port, not yet handled
    fromNode,   \* messages posted by worklet processors, not yet handled by the controller
    calls,      \* startFormula calls suspended at an await
    obs,        \* what the last step emitted: diagnostics, exported WAV, output block,
                \* the playback state before and after a forced stop of the recording,
                \* the arguments of the setProperty block that ran
    ghost,      \* history: begun, limitHit, pushed, the samples counted by each clock,
                \* stopped (stop() was the last of the start / stop blocks)
    fft,        \* src/FFT.js: one activation of nextPow2 / nextPowerOfTwo
    player      \* src/bytebeat.js: the BytebeatExtension object of the fixed-formula player

vars == <<env, ext, proc, toNode, fromNode, calls, obs, ghost, fft, player>>

----------------------------------------------------------------------------
(* Bounds of the exploration *)

MaxCalls == 2       \* startFormula calls in flight at once
MaxQueue == 2       \* messages in flight in one direction
BlockLen == 2       \* frames per process / onaudioprocess callback
MaxBlocks == 2      \* process / onaudioprocess callbacks in one behaviour
MaxOps == 4         \* blocks of the extension run in one behaviour

(* Program constants, scaled *)

MaxFormulaLength == 3     \* 2000 characters
RecordMaxSamples == 3     \* 44100 * 60 * 10 samples
MinChunkSize == 1         \* 128
MaxChunkSize == 3         \* 65536
DefaultChunkSize == 2     \* 4096
MinLogicalRate == 1       \* 100
MaxLogicalRate == 2       \* 192000
DefaultLogicalRate == 1   \* 8000
PhysicalRate == 2         \* audioCtx.sampleRate
ClockGrid == 2            \* 2^52: the clock is a multiple of 1 / ClockGrid
VolumeUnit == 2           \* volume 1.0 is VolumeUnit
MaxVolume == 4 * VolumeUnit
SampleUnit == 128 * VolumeUnit    \* sample 1.0 is SampleUnit

NaN == 0 - 1000           \* Number(x) of a non-numeric x

DefaultWavRate == 44100   \* the rate of an export made without an audio context

----------------------------------------------------------------------------
(* Formula texts *)

ERROR_FALLBACK_FORMULA == <<"fb">>
DefaultFormula == <<"d">>
NoFunction == <<>>

Operands == {"t", "1", "u", "r", "this", "fb", "d"}

forbidden == {"while", "for", "function", "=>", "await", "async", "import", "export",
              "constructor", "this", "XMLHttpRequest", "fetch", "setInterval", "setTimeout"}

Max(a, b) == IF a >= b THEN a ELSE b
Min(a, b) == IF a <= b THEN a ELSE b

\* mutant of Clamp: the upper bound is not applied
ClampBelow(lo, hi, x) == Max(lo, x)

\* Math.max(lo, Math.min(hi, x))
Clamp(lo, hi, x) == Max(lo, Min(hi, x))

\* a text of MaxFormulaLength + 2 tokens that would compile: t+t+...+t
LongFormula == [i \in 1..(2 * ((MaxFormulaLength + 2) \div 2) + 1) |->
                   IF i % 2 = 1 THEN "t" ELSE "+"]

RECURSIVE Trim(_)
Trim(s) ==
    IF s = <<>> THEN s
    ELSE IF Head(s) = " " THEN Trim(Tail(s))
    ELSE IF s[Len(s)] = " " THEN Trim(SubSeq(s, 1, Len(s) - 1))
    ELSE s

Includes(s, f) == \E i \in 1..Len(s) : s[i] = f

\* mutant of SanityCheckThrows: the length check is missing
SanityCheckForbiddenOnly(text) ==
    \E f \in forbidden : Includes(text, f)

\* _sanityCheckFormula: TRUE iff it throws
SanityCheckThrows(text) ==
    \/ \E f \in forbidden : Includes(text, f)
    \/ Len(text) > MaxFormulaLength

\* new Function('t','s','T','return (' + text + ')|0;') throws a SyntaxError,
\* or an EvalError where the content security policy forbids code from text
NewFunctionThrows(text, evalAllowed) ==
    \/ ~evalAllowed
    \/ Len(text) % 2 = 0
    \/ \E i \in 1..Len(text) :
          IF i % 2 = 1 THEN text[i] \notin Operands ELSE text[i] # "+"

FallbackRaw(t) ==
    CASE t = 0 -> 0  [] t = 1 -> -3  [] t = 2 -> -2  [] t = 3 -> -21
      [] t = 4 -> -4 [] t = 5 -> -15 [] t = 6 -> -6  [] t = 7 -> -105
      [] OTHER -> 0 - t

OperandThrows(tok, t) == tok = "u" \/ (tok = "r" /\ t # 0)

OperandValue(tok, t) ==
    CASE tok = "t" -> t
      [] tok = "1" -> 1
      [] tok = "fb" -> FallbackRaw(t)
      [] OTHER -> 0

\* calling a compiled function with time index t throws
CallThrows(fn, t) == \E i \in 1..Len(fn) : i % 2 = 1 /\ OperandThrows(fn[i], t)

RECURSIVE SumOperands(_, _)
SumOperands(fn, t) ==
    IF fn = <<>> THEN 0
    ELSE OperandValue(Head(fn), t) + SumOperands(IF Len(fn) >= 2 THEN SubSeq(fn, 3, Len(fn)) ELSE <<>>, t)

\* the value a compiled function returns at time index t (when it does not throw)
CallValue(fn, t) == SumOperands(fn, t)

----------------------------------------------------------------------------
(* Quantizer and WAV samples *)

\* mutant of V8: for a negative raw, the bits of its one's complement
V8Magnitude(raw) ==
    (IF raw >= 0 THEN raw ELSE 0 - (raw + 1)) % 256

\* (raw | 0) & 255, raw being a signed 32-bit integer: the eight low bits of its
\* two's complement pattern; for a negative raw the pattern is that of raw + 2^32,
\* whose 31 low bits are those of raw + 2^31
V8(raw) ==
    (IF raw >= 0 THEN raw ELSE (raw + 2147483647) + 1) % 256

\* (raw | 0) & 255, then (v8 / 128) - 1, then * vol: in units of 1/SampleUnit
Quantize(raw, vol) == (V8(raw) - 128) * vol

\* the clamp and 16-bit conversion of _makeWavBlob
Int16(sample) ==
    LET s == Max(0 - SampleUnit, Min(SampleUnit, sample))
    IN IF s < 0 THEN (s * 32768) \div SampleUnit
       ELSE (2 * s * 32767 + SampleUnit) \div (2 * SampleUnit)

\* the char codes a writeString call stores, one byte each
RIFF == <<82, 73, 70, 70>>
WAVE == <<87, 65, 86, 69>>
Fmt == <<102, 109, 116, 32>>
Data == <<100, 97, 116, 97>>

\* mutant of Uint32LE: the most significant byte first
Uint32BE(v) ==
    <<(v \div 16777216) % 256, (v \div 65536) % 256, (v \div 256) % 256, v % 256>>

\* DataView.setUint32(offset, v, true): the four bytes of v, least significant first
Uint32LE(v) ==
    <<v % 256, (v \div 256) % 256, (v \div 65536) % 256, (v \div 16777216) % 256>>

\* DataView.setUint16(offset, v, true)
Uint16LE(v) == <<v % 256, (v \div 256) % 256>>

\* DataView.setInt16(offset, v, true): the two's complement pattern of v
Int16LE(v) == Uint16LE((v + 65536) % 65536)

RECURSIVE SampleBytes(_)
SampleBytes(samples) ==
    IF samples = <<>> THEN <<>>
    ELSE Int16LE(Int16(Head(samples))) \o SampleBytes(Tail(samples))

\* _makeWavBlob: the bytes of the blob
MakeWavBlob(samples, sampleRate) ==
    LET len == Len(samples)
    IN RIFF \o Uint32LE(36 + len * 2) \o WAVE
       \o Fmt \o Uint32LE(16) \o Uint16LE(1) \o Uint16LE(1)
       \o Uint32LE(sampleRate) \o Uint32LE(sampleRate * 2) \o Uint16LE(2) \o Uint16LE(16)
       \o Data \o Uint32LE(len * 2)
       \o SampleBytes(samples)

----------------------------------------------------------------------------
(* The state the handlers work on.  M is the record                        *)
(* [ext, proc, toNode, fromNode, obs, ghost]; every handler maps M to M.   *)

NoWav == <<>>
EmptyObs == [diag |-> {}, trans |-> {}, wav |-> NoWav, block |-> <<>>, limit |-> {},
             args |-> <<>>]

Main == [ext |-> ext, proc |-> proc, toNode |-> toNode, fromNode |-> fromNode,
         obs |-> EmptyObs, ghost |-> ghost]

\* the state at the start of a block of the extension
Op == [Main EXCEPT !.ghost.ops = @ + 1]

Commit(M) ==
    /\ ext' = M.ext
    /\ proc' = M.proc
    /\ toNode' = M.toNode
    /\ fromNode' = M.fromNode
    /\ obs' = M.obs
    /\ ghost' = M.ghost
    /\ Len(M.toNode) <= MaxQueue
    /\ Len(M.fromNode) <= MaxQueue
    /\ UNCHANGED <<fft, player>>

Diag(M, d) == [M EXCEPT !.obs.diag = @ \cup {d}]
Trans(M, d) == [M EXCEPT !.obs.trans = @ \cup {d}]
Emit(M, m) == [M EXCEPT !.fromNode = Append(@, m)]

ErrorMsg(kind) == [type |-> "error", kind |-> kind]
ChunkMsg(chunk) == [type |-> "recordChunk", chunk |-> chunk]
SetFormulaMsg(f) == [type |-> "setFormula", formula |-> f]
RecordMsg(on) == [type |-> "record", on |-> on]
SetChunkSizeMsg(n) == [type |-> "setChunkSize", size |-> n]
SetVolumeMsg(v) == [type |-> "setVolume", value |-> v]

\* mutant of Increment: the quotient is cut off instead of rounded to the nearest
IncrementTruncated(logicalS) ==
    (logicalS * ClockGrid) \div env.sampleRate

\* logicalS / sr as the clock adds it: rounded to the nearest multiple of 1 / ClockGrid
Increment(logicalS) ==
    (2 * logicalS * ClockGrid + env.sampleRate) \div (2 * env.sampleRate)

\* Math.floor(t) of a clock value
Floor(t) == t \div ClockGrid

\* history of a clock: the samples generated since it was last set to 0, and the
\* logical rates they were generated with
NoCount == [n |-> 0, rates |-> {}]
Count(c, logicalS) == [n |-> c.n + 1, rates |-> c.rates \cup {logicalS}]

----------------------------------------------------------------------------
(* BytebeatProcessor (the worklet) *)

\* the processor object where no worklet node is live
NoProcessor == [t |-> 0, compiled |-> NoFunction, recording |-> FALSE, recordBuffer |-> <<>>,
                recordChunkSize |-> DefaultChunkSize, volume |-> VolumeUnit,
                logicalS |-> DefaultLogicalRate]

\* BytebeatProcessor._flushRecord
FlushRecord(M) ==
    IF Len(M.proc.recordBuffer) > 0
    THEN [Emit(M, ChunkMsg(M.proc.recordBuffer)) EXCEPT !.proc.recordBuffer = <<>>]
    ELSE M

\* BytebeatProcessor._setRecording
SetRecording(M, on) ==
    LET M1 == [M EXCEPT !.proc.recording = on]
    IN IF ~on THEN FlushRecord(M1) ELSE M1

\* the catch blocks shared by _setFormula and process: compile the fallback, report
ProcFallback(M, kind) ==
    IF ~NewFunctionThrows(ERROR_FALLBACK_FORMULA, env.evalAllowed)
    THEN Trans(Diag(Emit([M EXCEPT !.proc.compiled = ERROR_FALLBACK_FORMULA],
                         ErrorMsg(kind)), kind), kind)
    ELSE Diag(Emit([M EXCEPT !.proc.compiled = NoFunction], ErrorMsg("fatal")), "fatal")

\* BytebeatProcessor._setFormula
SetFormula(M, formulaText) ==
    IF ~NewFunctionThrows(formulaText, env.evalAllowed) /\ ~CallThrows(formulaText, 0)
    THEN [M EXCEPT !.proc.compiled = formulaText]
    ELSE ProcFallback(M, "compile")

\* BytebeatProcessor constructor, with the node's parameterData
NewProcessor(M, vol, logicalS) ==
    SetFormula([M EXCEPT !.proc = [NoProcessor EXCEPT !.volume = vol, !.logicalS = logicalS],
                         !.ghost.wclock = NoCount],
               ERROR_FALLBACK_FORMULA)

\* port.onmessage of the processor
ProcOnMessage(M, d) ==
    CASE d.type = "setFormula" -> SetFormula(M, d.formula)
      [] d.type = "record" -> SetRecording(M, d.on)
      [] d.type = "setChunkSize" ->
           [M EXCEPT !.proc.recordChunkSize = Clamp(MinChunkSize, MaxChunkSize, d.size)]
      [] d.type = "resetTime" -> [M EXCEPT !.proc.t = 0, !.ghost.wclock = NoCount]
      [] OTHER -> M

\* one iteration of the sample loop of BytebeatProcessor.process
ProcSample(M) ==
    LET p == M.proc
        ti == Floor(p.t)
        has == p.compiled # NoFunction
        threw == has /\ CallThrows(p.compiled, ti)
        raw == IF has /\ ~threw THEN CallValue(p.compiled, ti) ELSE 0
        M1 == IF threw THEN ProcFallback(M, "runtime") ELSE M
        vol == p.volume
        sample == Quantize(raw, vol)
        M2 == [M1 EXCEPT !.obs.block = Append(@, [raw |-> raw, out |-> sample, threw |-> threw,
                                                  vol |-> vol, ti |-> ti, clock |-> p.t])]
        M3 == IF p.recording
              THEN LET M3a == [M2 EXCEPT !.proc.recordBuffer = Append(@, sample),
                                         !.ghost.pushed = Append(@, sample)]
                   IN IF Len(M3a.proc.recordBuffer) >= p.recordChunkSize
                      THEN FlushRecord(M3a) ELSE M3a
              ELSE M2
    IN [M3 EXCEPT !.proc.t = @ + Increment(p.logicalS),
                  !.ghost.wclock = Count(@, p.logicalS)]

RECURSIVE ProcSamples(_, _)
ProcSamples(M, n) == IF n = 0 THEN M ELSE ProcSamples(ProcSample(M), n - 1)

\* BytebeatProcessor.process: one render quantum
Process(M) == ProcSamples(M, BlockLen)

\* a worklet node that is disconnected is rendered no more; its processor still
\* handles the messages already posted to it, and is then forgotten
RECURSIVE DrainProcessor(_)
DrainProcessor(M) ==
    IF M.toNode = <<>> THEN [M EXCEPT !.proc = NoProcessor, !.ghost.wclock = NoCount]
    ELSE DrainProcessor(ProcOnMessage([M EXCEPT !.toNode = Tail(@)], Head(M.toNode)))

----------------------------------------------------------------------------
(* BytebeatExtension: message routing and the script fallback *)

RECURSIVE HandleNodeMessage(_, _), HandleScriptMessage(_, _)

\* BytebeatExtension._postToNode
PostToNode(M, msg) ==
    IF M.ext.node = "none" THEN M
    ELSE IF M.ext.usingWorklet /\ M.ext.node = "worklet"
         THEN [M EXCEPT !.toNode = Append(@, msg)]
    ELSE IF ~M.ext.usingWorklet THEN HandleScriptMessage(M, msg)
    ELSE M

\* the playback state of the controller: playing, node, formula, parameters
Playback(e) ==
    [isPlaying |-> e.isPlaying, node |-> e.node, connected |-> e.connected,
     formula |-> e.formula, volume |-> e.volume,
     logicalSampleRate |-> e.logicalSampleRate, preferredChunkSize |-> e.preferredChunkSize]

\* the forced stop observed: the playback state before it and after it
Limit(M, before) == [M EXCEPT !.obs.limit = @ \cup {<<before, Playback(M.ext)>>}]

\* mutant of HandleRecordChunk: at the limit the playback is stopped as well
HandleRecordChunkStops(M, chunk) ==
    LET M1 == [M EXCEPT !.ext.recordedSamples = @ \o chunk]
    IN IF Len(M1.ext.recordedSamples) > RecordMaxSamples
       THEN Limit(Diag(PostToNode([M1 EXCEPT !.ext.recording = FALSE,
                                             !.ext.recordedSamples = <<>>,
                                             !.ext.isPlaying = FALSE,
                                             !.ghost.limitHit = TRUE],
                                  RecordMsg(FALSE)),
                       "alertLimit"),
                  Playback(M.ext))
       ELSE M1

\* the recordChunk branch of _handleNodeMessage
HandleRecordChunk(M, chunk) ==
    LET M1 == [M EXCEPT !.ext.recordedSamples = @ \o chunk]
    IN IF Len(M1.ext.recordedSamples) > RecordMaxSamples
       THEN Limit(Diag(PostToNode([M1 EXCEPT !.ext.recording = FALSE,
                                             !.ext.recordedSamples = <<>>,
                                             !.ghost.limitHit = TRUE],
                                  RecordMsg(FALSE)),
                       "alertLimit"),
                  Playback(M.ext))
       ELSE M1

\* BytebeatExtension._handleNodeMessage
HandleNodeMessage(M, data) ==
    CASE data.type = "error" ->
           PostToNode(Diag(M, "alertError"), SetFormulaMsg(ERROR_FALLBACK_FORMULA))
      [] data.type = "recordChunk" -> HandleRecordChunk(M, data.chunk)
      [] OTHER -> M

\* the setFormula branch of the closure _handleScriptMessage
ScriptSetFormula(M, formulaText) ==
    IF ~NewFunctionThrows(formulaText, env.evalAllowed)
    THEN [M EXCEPT !.ext.scriptCompiledFunc = formulaText, !.ext.t = 0,
                   !.ghost.sclock = NoCount]
    ELSE IF ~NewFunctionThrows(ERROR_FALLBACK_FORMULA, env.evalAllowed)
         THEN Trans([M EXCEPT !.ext.scriptCompiledFunc = ERROR_FALLBACK_FORMULA], "compile")
    ELSE [M EXCEPT !.ext.scriptCompiledFunc = NoFunction]

\* the record branch of the closure _handleScriptMessage
ScriptSetRecording(M, on) ==
    LET M1 == [M EXCEPT !.ext.scriptRecording = on]
    IN IF ~on /\ Len(M1.ext.scriptRecordBuffer) > 0
       THEN [HandleNodeMessage(M1, ChunkMsg(M1.ext.scriptRecordBuffer))
                EXCEPT !.ext.scriptRecordBuffer = <<>>]
       ELSE M1

\* this._handleScriptMessage: the no-op of the constructor, or the closure that
\* the last _createScriptProcessor installed
HandleScriptMessage(M, msg) ==
    IF M.ext.handleScriptMessage = "noop" THEN M
    ELSE CASE msg.type = "setFormula" -> ScriptSetFormula(M, msg.formula)
           [] msg.type = "record" -> ScriptSetRecording(M, msg.on)
           [] msg.type = "setChunkSize" ->
                [M EXCEPT !.ext.scriptRecordChunkSize = Clamp(MinChunkSize, MaxChunkSize, msg.size)]
           [] msg.type = "resetTime" -> [M EXCEPT !.ext.t = 0, !.ghost.sclock = NoCount]
           [] OTHER -> M

\* mutant of ScriptRuntimeFallback: the failing function stays installed
ScriptRuntimeKeep(M) ==
    Trans(Diag(M, "runtime"), "runtime")

\* the catch block of processFunc: compile the fallback, warn on the console
ScriptRuntimeFallback(M) ==
    IF ~NewFunctionThrows(ERROR_FALLBACK_FORMULA, env.evalAllowed)
    THEN Trans(Diag([M EXCEPT !.ext.scriptCompiledFunc = ERROR_FALLBACK_FORMULA], "runtime"),
               "runtime")
    ELSE Diag([M EXCEPT !.ext.scriptCompiledFunc = NoFunction], "fatal")

\* one iteration of the sample loop of processFunc; logicalS is read once per block
ScriptSample(M, logicalS) ==
    LET e == M.ext
        ti == Floor(e.t)
        has == e.scriptCompiledFunc # NoFunction
        threw == has /\ CallThrows(e.scriptCompiledFunc, ti)
        raw == IF has /\ ~threw THEN CallValue(e.scriptCompiledFunc, ti) ELSE 0
        M1 == IF threw THEN ScriptRuntimeFallback(M) ELSE M
        vol == IF e.volume = 0 THEN VolumeUnit ELSE e.volume
        sample == Quantize(raw, vol)
        M2 == [M1 EXCEPT !.obs.block = Append(@, [raw |-> raw, out |-> sample, threw |-> threw,
                                                  vol |-> vol, ti |-> ti, clock |-> e.t])]
        M3 == IF e.scriptRecording
              THEN LET M3a == [M2 EXCEPT !.ext.scriptRecordBuffer = Append(@, sample),
                                         !.ghost.pushed = Append(@, sample)]
                   IN IF Len(M3a.ext.scriptRecordBuffer) >= e.scriptRecordChunkSize
                      THEN [HandleNodeMessage(M3a, ChunkMsg(M3a.ext.scriptRecordBuffer))
                               EXCEPT !.ext.scriptRecordBuffer = <<>>]
                      ELSE M3a
              ELSE M2
    IN [M3 EXCEPT !.ext.t = @ + Increment(logicalS),
                  !.ghost.sclock = Count(@, logicalS)]

RECURSIVE ScriptSamples(_, _, _)
ScriptSamples(M, logicalS, n) ==
    IF n = 0 THEN M ELSE ScriptSamples(ScriptSample(M, logicalS), logicalS, n - 1)

\* processFunc: one onaudioprocess callback
ProcessFunc(M) == ScriptSamples(M, Max(1, M.ext.logicalSampleRate), BlockLen)

\* BytebeatExtension._createScriptProcessor; where no script node can be created it
\* alerts and throws, and its caller is left at that point
CreateScriptProcessor(M) ==
    LET f == M.ext.formula
        ok == ~NewFunctionThrows(f, env.evalAllowed) /\ ~CallThrows(f, 0)
        fbOk == ~NewFunctionThrows(ERROR_FALLBACK_FORMULA, env.evalAllowed)
        M1 == [M EXCEPT !.ext.node = "script",
                        !.ext.connected = @ + 1,
                        !.ext.t = 0,
                        !.ghost.sclock = NoCount,
                        !.ext.scriptRecordBuffer = <<>>,
                        !.ext.scriptRecording = FALSE,
                        !.ext.scriptRecordChunkSize = M.ext.preferredChunkSize,
                        !.ext.handleScriptMessage = "closure",
                        !.ext.scriptCompiledFunc =
                            IF ok THEN f ELSE IF fbOk THEN ERROR_FALLBACK_FORMULA ELSE NoFunction]
    IN IF ~env.scriptAvailable THEN Diag(M, "alertNoScript")
       ELSE IF ok THEN M1
       ELSE IF fbOk THEN Trans(Diag(M1, "compile"), "compile")
       ELSE Diag(M1, "fatal")

\* node.disconnect() on the node the controller holds
Disconnect(M) ==
    LET M1 == [M EXCEPT !.ext.connected = @ - 1]
    IN IF M.ext.node = "worklet" THEN DrainProcessor(M1) ELSE M1

\* BytebeatExtension._recreateScriptProcessor
RecreateScriptProcessor(M) ==
    LET M1 == IF M.ext.node # "none" THEN [Disconnect(M) EXCEPT !.ext.node = "none"] ELSE M
        M2 == CreateScriptProcessor(M1)
        M3 == HandleScriptMessage(M2, RecordMsg(M2.ext.recording))
    IN IF ~env.scriptAvailable THEN M2
       ELSE HandleScriptMessage(M3, SetFormulaMsg(M3.ext.formula))

\* mutant of StartAudio: without the worklet no node is made
StartAudioWorkletOnly(M) ==
    IF ~M.ext.audioCtx \/ M.ext.isPlaying THEN M
    ELSE IF M.ext.usingWorklet
         THEN LET W1 == NewProcessor([M EXCEPT !.ext.node = "worklet",
                                               !.ext.connected = @ + 1],
                                     M.ext.volume, M.ext.logicalSampleRate)
                  W2 == PostToNode(W1, SetChunkSizeMsg(W1.ext.preferredChunkSize))
                  W3 == PostToNode(W2, SetFormulaMsg(W2.ext.formula))
              IN [W3 EXCEPT !.ext.isPlaying = TRUE]
         ELSE M

\* BytebeatExtension._startAudio
StartAudio(M) ==
    IF ~M.ext.audioCtx \/ M.ext.isPlaying THEN M
    ELSE IF M.ext.usingWorklet
         THEN LET W1 == NewProcessor([M EXCEPT !.ext.node = "worklet",
                                               !.ext.connected = @ + 1],
                                     M.ext.volume, M.ext.logicalSampleRate)
                  W2 == PostToNode(W1, SetChunkSizeMsg(W1.ext.preferredChunkSize))
                  W3 == PostToNode(W2, SetFormulaMsg(W2.ext.formula))
              IN [W3 EXCEPT !.ext.isPlaying = TRUE]
         ELSE LET S1 == CreateScriptProcessor(M)
                  S2 == HandleScriptMessage(S1, SetFormulaMsg(S1.ext.formula))
                  S3 == HandleScriptMessage(S2, RecordMsg(S2.ext.recording))
              IN IF ~env.scriptAvailable THEN S1
                 ELSE [S3 EXCEPT !.ext.isPlaying = TRUE]

\* mutant of StopAudio: the node is disconnected but still held
StopAudioKeepNode(M) ==
    IF ~M.ext.isPlaying THEN M
    ELSE LET M1 == IF M.ext.node # "none"
                   THEN Disconnect(PostToNode(M, RecordMsg(FALSE)))
                   ELSE M
         IN [M1 EXCEPT !.ext.isPlaying = FALSE]

\* BytebeatExtension._stopAudio
StopAudio(M) ==
    IF ~M.ext.isPlaying THEN M
    ELSE LET M1 == IF M.ext.node # "none"
                   THEN [Disconnect(PostToNode(M, RecordMsg(FALSE))) EXCEPT !.ext.node = "none"]
                   ELSE M
         IN [M1 EXCEPT !.ext.isPlaying = FALSE]

----------------------------------------------------------------------------
(* Blocks of the extension *)

\* the texts given to startFormula; <<>> is the empty text
FormulaInputs ==
    { <<>>, <<" ", "t">>, <<"t", "+", "this">>, LongFormula,
      <<"t", "+">>, <<"u">>, <<"r">> }

PropertyInputs == {"Volume", "Sample rate", "Buffer size", "Pitch"}
ValueInputs == {NaN, 0, VolumeUnit \div 2, MaxVolume + 1}

\* more names and values: no name, other spellings; a negative value, a value
\* between two integers, a value above the upper bounds
PropertyNames == PropertyInputs \cup {"", "BufferSize"}
ValueRange == {NaN, 0 - 1, 0, VolumeUnit + 1, MaxVolume + 1}

\* startFormula after its await: post the formula, start the audio
ResumeStartFormula(M) ==
    LET M1 == PostToNode(M, SetFormulaMsg(M.ext.formula))
    IN IF ~M1.ext.isPlaying THEN StartAudio(M1) ELSE M1

\* startFormula up to its first await: the sanity check, and _ensureAudioPrepared
\* up to addModule.  ctxOk: whether an AudioContext can be constructed.
StartFormula(text, ctxOk) ==
    /\ calls.addModule + calls.resume < MaxCalls
    /\ ghost.ops < MaxOps
    /\ LET f == Trim(IF text = <<>> THEN ext.formula ELSE text)
           M0 == [Op EXCEPT !.ghost.stopped = FALSE]
           M1 == IF SanityCheckThrows(f)
                 THEN Diag([M0 EXCEPT !.ext.formula = ERROR_FALLBACK_FORMULA], "sanity")
                 ELSE [M0 EXCEPT !.ext.formula = f]
       IN IF ~ext.audioCtx /\ ~ctxOk
          THEN Commit(Diag(M1, "alertNoAudio")) /\ UNCHANGED calls
          ELSE IF env.workletAvailable /\ ~ext.workletLoaded
               THEN /\ Commit([M1 EXCEPT !.ext.audioCtx = TRUE])
                    /\ calls' = [calls EXCEPT !.addModule = @ + 1]
               ELSE /\ Commit([M1 EXCEPT !.ext.audioCtx = TRUE,
                                         !.ext.usingWorklet = ext.workletLoaded])
                    /\ calls' = [calls EXCEPT !.resume = @ + 1]
    /\ UNCHANGED env

\* addModule settles: the rest of _ensureAudioPrepared, then the rest of startFormula
AddModuleSettled(ok) ==
    /\ calls.addModule > 0
    /\ calls' = [calls EXCEPT !.addModule = @ - 1]
    /\ Commit(ResumeStartFormula([Main EXCEPT !.ext.workletLoaded = ok,
                                              !.ext.usingWorklet = ok]))
    /\ UNCHANGED env

\* a startFormula call whose _ensureAudioPrepared did not wait for addModule resumes
Resume ==
    /\ calls.resume > 0
    /\ calls' = [calls EXCEPT !.resume = @ - 1]
    /\ Commit(ResumeStartFormula(Main))
    /\ UNCHANGED env

\* BytebeatExtension.stop
Stop ==
    /\ ghost.ops < MaxOps
    /\ Commit(StopAudio([Op EXCEPT !.ghost.stopped = TRUE]))
    /\ UNCHANGED <<env, calls>>

\* Math.round of the value v, which is counted in units of 1/VolumeUnit
Round(v) == (2 * v + VolumeUnit) \div (2 * VolumeUnit)

\* the property a name selects: args.PROPERTY || 'Volume', then the patterns
\* /^volume$/i, /^sample\s*rate$/i and /^buffer\s*size$/i
PropertyOf(name) ==
    CASE name \in {"", "Volume", "volume"} -> "Volume"
      [] name \in {"Sample rate", "SampleRate"} -> "Sample rate"
      [] name \in {"Buffer size", "BufferSize"} -> "Buffer size"
      [] OTHER -> "unknown"

\* BytebeatExtension.setProperty, value being Number(args.VALUE)
SetPropertyOn(M, name, value) ==
    LET live == M.ext.node # "none" /\ M.ext.usingWorklet
        prop == PropertyOf(name)
    IN CASE prop = "Volume" ->
              LET clamped == Clamp(0, MaxVolume, IF value = NaN THEN VolumeUnit ELSE value)
                  M1 == [M EXCEPT !.ext.volume = clamped]
              IN IF live
                 THEN IF M.ext.node = "worklet" THEN [M1 EXCEPT !.proc.volume = clamped]
                      ELSE PostToNode(M1, SetVolumeMsg(clamped))
                 ELSE M1
         [] prop = "Sample rate" ->
              LET clamped == Clamp(MinLogicalRate, MaxLogicalRate,
                                   IF value = NaN THEN DefaultLogicalRate ELSE Round(value))
                  M1 == [M EXCEPT !.ext.logicalSampleRate = clamped]
              IN IF live
                 THEN IF M.ext.node = "worklet" THEN [M1 EXCEPT !.proc.logicalS = clamped]
                      ELSE PostToNode(M1, [type |-> "setLogicalS", value |-> clamped])
                 ELSE M1
         [] prop = "Buffer size" ->
              LET size == Clamp(MinChunkSize, MaxChunkSize,
                                IF value = NaN THEN M.ext.preferredChunkSize ELSE Round(value))
                  M1 == [M EXCEPT !.ext.preferredChunkSize = size]
                  M2 == IF live THEN PostToNode(M1, SetChunkSizeMsg(size)) ELSE M1
              IN IF ~M2.ext.usingWorklet /\ M2.ext.isPlaying
                 THEN RecreateScriptProcessor(M2) ELSE M2
         [] OTHER -> Diag(M, "unknownProperty")

SetProperty(prop, value) ==
    /\ ghost.ops < MaxOps
    /\ Commit(SetPropertyOn([Op EXCEPT !.obs.args = <<prop, value>>], prop, value))
    /\ UNCHANGED <<env, calls>>

\* BytebeatExtension.recordStart
RecordStartOn(M) ==
    PostToNode([M EXCEPT !.ext.recordedSamples = <<>>,
                         !.ext.recording = TRUE,
                         !.ghost.begun = TRUE,
                         !.ghost.limitHit = FALSE,
                         !.ghost.pushed = <<>>],
               RecordMsg(TRUE))

RecordStart ==
    /\ ghost.ops < MaxOps
    /\ Commit(RecordStartOn(Op))
    /\ UNCHANGED <<env, calls>>

\* BytebeatExtension.recordStopSave
RecordStopSaveOn(M) ==
    LET M1 == PostToNode([M EXCEPT !.ext.recording = FALSE, !.ghost.begun = FALSE],
                         RecordMsg(FALSE))
    IN IF Len(M1.ext.recordedSamples) = 0
       THEN Diag(M1, "alertEmpty")
       ELSE [M1 EXCEPT !.obs.wav = MakeWavBlob(M1.ext.recordedSamples,
                                               IF M1.ext.audioCtx THEN env.sampleRate
                                               ELSE DefaultWavRate),
                       !.ext.recordedSamples = <<>>]

RecordStopSave ==
    /\ ghost.ops < MaxOps
    /\ Commit(RecordStopSaveOn(Op))
    /\ UNCHANGED <<env, calls>>

----------------------------------------------------------------------------
(* Steps of the platform *)

\* the worklet processor handles the next message of its port
WorkletReceive ==
    /\ ext.node = "worklet"
    /\ toNode # <<>>
    /\ Commit(ProcOnMessage([Main EXCEPT !.toNode = Tail(@)], Head(toNode)))
    /\ UNCHANGED <<env, calls>>

\* the audio thread renders one quantum with the worklet processor
WorkletProcess ==
    /\ ext.node = "worklet"
    /\ ghost.blocks < MaxBlocks
    /\ Commit(Process([Main EXCEPT !.ghost.blocks = @ + 1]))
    /\ UNCHANGED <<env, calls>>

\* the host calls onaudioprocess of the connected script node
ScriptProcess ==
    /\ ext.node = "script"
    /\ ghost.blocks < MaxBlocks
    /\ Commit(ProcessFunc([Main EXCEPT !.ghost.blocks = @ + 1]))
    /\ UNCHANGED <<env, calls>>

\* node.port.onmessage of the controller: the next message of a worklet processor
ControllerReceive ==
    /\ fromNode # <<>>
    /\ Commit(HandleNodeMessage([Main EXCEPT !.fromNode = Tail(@)], Head(fromNode)))
    /\ UNCHANGED <<env, calls>>

----------------------------------------------------------------------------

\* no activation of nextPowerOfTwo
NoCall == [pc |-> "none", n |-> 0, p |-> 0, ret |-> 0]

\* the constructor of the player (src/bytebeat.js); connected counts the nodes
\* connected to the destination, blocks the onaudioprocess callbacks, out is the
\* last output block
NewPlayer ==
    [audioCtx |-> FALSE, scriptNode |-> FALSE, t |-> 0, playing |-> FALSE,
     connected |-> 0, blocks |-> 0, out |-> <<>>]

InitExt ==
    [audioCtx |-> FALSE, node |-> "none", isPlaying |-> FALSE, usingWorklet |-> FALSE,
     workletLoaded |-> FALSE, logicalSampleRate |-> DefaultLogicalRate,
     volume |-> VolumeUnit, formula |-> DefaultFormula, recording |-> FALSE,
     recordedSamples |-> <<>>, preferredChunkSize |-> DefaultChunkSize,
     handleScriptMessage |-> "noop", scriptCompiledFunc |-> NoFunction,
     scriptRecordBuffer |-> <<>>, scriptRecording |-> FALSE,
     scriptRecordChunkSize |-> DefaultChunkSize, t |-> 0, connected |-> 0]

Init ==
    /\ env \in [workletAvailable : BOOLEAN, evalAllowed : BOOLEAN,
                 scriptAvailable : {TRUE}, sampleRate : {PhysicalRate}]
    /\ ext = InitExt
    /\ proc = NoProcessor
    /\ toNode = <<>>
    /\ fromNode = <<>>
    /\ calls = [addModule |-> 0, resume |-> 0]
    /\ obs = EmptyObs
    /\ ghost = [begun |-> FALSE, limitHit |-> FALSE, pushed |-> <<>>, blocks |-> 0, ops |-> 0,
                wclock |-> NoCount, sclock |-> NoCount, stopped |-> FALSE]
    /\ fft = NoCall
    /\ player = NewPlayer

\* the platform's own steps
Platform ==
    \/ \E ok \in BOOLEAN : AddModuleSettled(ok)
    \/ Resume
    \/ WorkletReceive
    \/ WorkletProcess
    \/ ScriptProcess
    \/ ControllerReceive

\* every formula text, against the start / stop life cycle and the recreation of
\* the script backend (Buffer size given a value that is not a number keeps the size)
NextFormula ==
    \/ \E text \in FormulaInputs, ctxOk \in BOOLEAN : StartFormula(text, ctxOk)
    \/ Stop
    \/ SetProperty("Buffer size", NaN)
    \/ Platform

SpecFormula == Init /\ [][NextFormula]_vars

\* the text of the recording runs: one that evaluates at every time index
RecordingFormulas == { <<"t">> }

\* every property and the recording blocks, against the life cycle
NextRecording ==
    \/ \E text \in RecordingFormulas, ctxOk \in BOOLEAN : StartFormula(text, ctxOk)
    \/ Stop
    \/ \E prop \in PropertyInputs, value \in ValueInputs : SetProperty(prop, value)
    \/ RecordStart
    \/ RecordStopSave
    \/ Platform

SpecRecording == Init /\ [][NextRecording]_vars

\* every platform: with or without worklet and script node, at a sample rate that
\* the logical rates do not divide; and one platform at the sample rate they divide,
\* which refuses new Function, so that its processor reports the compile error to
\* the controller
InitPlatform ==
    /\ env \in [workletAvailable : BOOLEAN, evalAllowed : {TRUE},
                 scriptAvailable : BOOLEAN, sampleRate : {PhysicalRate + 1}]
                \cup [workletAvailable : {TRUE}, evalAllowed : {FALSE},
                      scriptAvailable : {TRUE}, sampleRate : {PhysicalRate}]
    /\ ext = InitExt
    /\ proc = NoProcessor
    /\ toNode = <<>>
    /\ fromNode = <<>>
    /\ calls = [addModule |-> 0, resume |-> 0]
    /\ obs = EmptyObs
    /\ ghost = [begun |-> FALSE, limitHit |-> FALSE, pushed |-> <<>>, blocks |-> 0, ops |-> 0,
                wclock |-> NoCount, sclock |-> NoCount, stopped |-> FALSE]
    /\ fft = NoCall
    /\ player = NewPlayer

\* every property name and value, against the life cycle, on every platform
NextPlatform ==
    \/ \E text \in RecordingFormulas, ctxOk \in BOOLEAN : StartFormula(text, ctxOk)
    \/ Stop
    \/ \E name \in PropertyNames, value \in ValueRange : SetProperty(name, value)
    \/ Platform

SpecPlatform == InitPlatform /\ [][NextPlatform]_vars

\* the raw results and gains given to the quantizer
RawInputs ==
    { 0 - 2147483647 - 1, 0 - 2147483647, 0 - 65536, 0 - 513, 0 - 257, 0 - 256, 0 - 255,
      0 - 129, 0 - 128, 0 - 127, 0 - 2, 0 - 1, 0, 1, 2, 127, 128, 129, 254, 255, 256, 257,
      511, 512, 65535, 65536, 2147483646, 2147483647 }
GainInputs == 0..MaxVolume

\* the three quantizer statements of the sample loops, on one raw result
QuantizeSample(raw, vol) ==
    /\ obs' = [EmptyObs EXCEPT !.block = <<[raw |-> raw, out |-> Quantize(raw, vol),
                                            threw |-> FALSE, vol |-> vol,
                                            ti |-> 0, clock |-> 0]>>]
    /\ UNCHANGED <<env, ext, proc, toNode, fromNode, calls, ghost, fft, player>>

NextQuantizer == \E raw \in RawInputs, vol \in GainInputs : QuantizeSample(raw, vol)

SpecQuantizer == Init /\ [][NextQuantizer]_vars

\* the sample sequences and rates given to the WAV encoder: samples below, at and
\* above the range [-1,1], rates of one to four significant bytes
MaxWavLen == 2
SampleInputs == {0 - 4 * SampleUnit, 0 - 1, 0, SampleUnit + 1}
WavRates == {1, 255, 256, DefaultWavRate, 1073741823}

\* one call of _makeWavBlob
EncodeWav(samples, rate) ==
    /\ obs' = [EmptyObs EXCEPT !.wav = MakeWavBlob(samples, rate), !.args = <<samples, rate>>]
    /\ UNCHANGED <<env, ext, proc, toNode, fromNode, calls, ghost, fft, player>>

NextWav ==
    \E n \in 0..MaxWavLen : \E samples \in [1..n -> SampleInputs] :
        \E rate \in WavRates : EncodeWav(samples, rate)

SpecWav == Init /\ [][NextWav]_vars

----------------------------------------------------------------------------
(* src/FFT.js: nextPow2 and nextPowerOfTwo.  The word of the shift is WordBits   *)
(* wide (32 in the program); fft is [pc, n, p, ret].                            *)

WordBits == 8
WordMin == 0 - 2 ^ (WordBits - 1)
WordMax == 2 ^ (WordBits - 1) - 1

\* ToInt32: the value of the two's complement word that holds x
ToInt32(x) == ((x - WordMin) % (2 ^ WordBits)) + WordMin

\* p << 1
ShiftLeftOne(p) == ToInt32(2 * p)

\* FFTExtension.nextPow2: n = Math.max(1, Math.floor(Number(args.N) || 0)), then
\* the call of the helper
NextPow2 ==
    /\ fft.pc = "block"
    /\ fft' = [fft EXCEPT !.n = Max(1, fft.n), !.pc = "call"]
    /\ UNCHANGED <<env, ext, proc, toNode, fromNode, calls, obs, ghost, player>>

\* nextPowerOfTwo up to its loop: if (n <= 1) return 1; let p = 1
NextPowerOfTwo ==
    /\ fft.pc = "call"
    /\ fft' = IF fft.n <= 1 THEN [fft EXCEPT !.pc = "return", !.ret = 1]
              ELSE [fft EXCEPT !.pc = "while", !.p = 1]
    /\ UNCHANGED <<env, ext, proc, toNode, fromNode, calls, obs, ghost, player>>

\* the test of the loop condition: while (p < n), and return p where it fails
While ==
    /\ fft.pc = "while"
    /\ fft' = IF fft.p < fft.n THEN [fft EXCEPT !.pc = "shift"]
              ELSE [fft EXCEPT !.pc = "return", !.ret = fft.p]
    /\ UNCHANGED <<env, ext, proc, toNode, fromNode, calls, obs, ghost, player>>

\* the body of the loop: p <<= 1
Shift ==
    /\ fft.pc = "shift"
    /\ fft' = [fft EXCEPT !.p = ShiftLeftOne(fft.p), !.pc = "while"]
    /\ UNCHANGED <<env, ext, proc, toNode, fromNode, calls, obs, ghost, player>>

\* every word as the argument, of the block or of the helper itself
InitFFT ==
    /\ env = [workletAvailable |-> FALSE, evalAllowed |-> TRUE, scriptAvailable |-> TRUE,
              sampleRate |-> PhysicalRate]
    /\ ext = InitExt
    /\ proc = NoProcessor
    /\ toNode = <<>>
    /\ fromNode = <<>>
    /\ calls = [addModule |-> 0, resume |-> 0]
    /\ obs = EmptyObs
    /\ ghost = [begun |-> FALSE, limitHit |-> FALSE, pushed |-> <<>>, blocks |-> 0, ops |-> 0,
                wclock |-> NoCount, sclock |-> NoCount, stopped |-> FALSE]
    /\ fft \in [pc : {"block", "call"}, n : WordMin..WordMax, p : {0}, ret : {0}]
    /\ player = NewPlayer

NextFFT == NextPow2 \/ NextPowerOfTwo \/ While \/ Shift

\* the call runs on: a statement that can be executed is executed
SpecFFT == InitFFT /\ [][NextFFT]_vars /\ WF_vars(NextFFT)

----------------------------------------------------------------------------
(* src/bytebeat.js: the fixed-formula player.  Its clock t is kept on the same   *)
(* grid as the clocks above.                                                     *)

TargetRate == 1           \* 8000
MaxPlayerBlocks == 12     \* onaudioprocess callbacks of the player in one behaviour

\* a & b and a | b of two non-negative integers
RECURSIVE BitAnd(_, _), BitOr(_, _)
BitAnd(a, b) ==
    IF a = 0 \/ b = 0 THEN 0
    ELSE (a % 2) * (b % 2) + 2 * BitAnd(a \div 2, b \div 2)
BitOr(a, b) ==
    IF a = 0 THEN b ELSE IF b = 0 THEN a
    ELSE Max(a % 2, b % 2) + 2 * BitOr(a \div 2, b \div 2)

\* the formula of the player at the time index t: the shift counts 0xFFF2 and
\* 0xFFD2 are taken modulo 32, which is 18 for both
PlayerSample(t) ==
    LET part1 == BitAnd((t * t) \div 262144, t \div 32)
        part2 == BitAnd((t * t) \div 262144, t \div 32)
        y == BitOr(part1, part2) * 255
    IN (V8(y) - 128) * VolumeUnit

\* one iteration of the sample loop of the onaudioprocess handler
PlayerLoop(pl) ==
    [pl EXCEPT !.out = Append(@, PlayerSample(Floor(pl.t))),
               !.t = @ + Increment(TargetRate)]

RECURSIVE PlayerLoops(_, _)
PlayerLoops(pl, n) == IF n = 0 THEN pl ELSE PlayerLoops(PlayerLoop(pl), n - 1)

\* mutant of StartBytebeat: no test of playing at the entry
StartBytebeatAgain(ctxOk) ==
    /\ player' = IF ~player.audioCtx /\ ~ctxOk
                 THEN [player EXCEPT !.playing = FALSE]
                 ELSE [player EXCEPT !.playing = TRUE, !.audioCtx = TRUE,
                                     !.scriptNode = TRUE, !.connected = @ + 1]
    /\ UNCHANGED <<env, ext, proc, toNode, fromNode, calls, obs, ghost, fft>>

\* BytebeatExtension.startBytebeat; ctxOk: whether an AudioContext can be constructed
StartBytebeat(ctxOk) ==
    /\ player' = IF player.playing THEN player
                 ELSE IF ~player.audioCtx /\ ~ctxOk
                      THEN [player EXCEPT !.playing = FALSE]
                 ELSE [player EXCEPT !.playing = TRUE, !.audioCtx = TRUE,
                                     !.scriptNode = TRUE, !.connected = @ + 1]
    /\ UNCHANGED <<env, ext, proc, toNode, fromNode, calls, obs, ghost, fft>>

\* BytebeatExtension.stopBytebeat
StopBytebeat ==
    /\ player' = IF ~player.playing THEN player
                 ELSE LET p1 == [player EXCEPT !.playing = FALSE]
                          p2 == IF p1.scriptNode
                                THEN [p1 EXCEPT !.connected = @ - 1, !.scriptNode = FALSE]
                                ELSE p1
                      IN [p2 EXCEPT !.t = 0]
    /\ UNCHANGED <<env, ext, proc, toNode, fromNode, calls, obs, ghost, fft>>

\* the host calls onaudioprocess of a connected node
OnAudioProcess ==
    /\ player.connected > 0
    /\ player.blocks < MaxPlayerBlocks
    /\ player' = PlayerLoops([player EXCEPT !.blocks = @ + 1, !.out = <<>>], BlockLen)
    /\ UNCHANGED <<env, ext, proc, toNode, fromNode, calls, obs, ghost, fft>>

\* the player on a context of either sample rate
InitPlayer ==
    /\ env \in [workletAvailable : {FALSE}, evalAllowed : {TRUE}, scriptAvailable : {TRUE},
                 sampleRate : {PhysicalRate, PhysicalRate + 1}]
    /\ ext = InitExt
    /\ proc = NoProcessor
    /\ toNode = <<>>
    /\ fromNode = <<>>
    /\ calls = [addModule |-> 0, resume |-> 0]
    /\ obs = EmptyObs
    /\ ghost = [begun |-> FALSE, limitHit |-> FALSE, pushed |-> <<>>, blocks |-> 0, ops |-> 0,
                wclock |-> NoCount, sclock |-> NoCount, stopped |-> FALSE]
    /\ fft = NoCall
    /\ player = NewPlayer

NextPlayer ==
    \/ \E ctxOk \in BOOLEAN : StartBytebeat(ctxOk)
    \/ StopBytebeat
    \/ OnAudioProcess

SpecPlayer == InitPlayer /\ [][NextPlayer]_vars

----------------------------------------------------------------------------
(* Properties *)

\* the compiled function of the backend whose node the controller holds
ActiveCompiled == IF ext.node = "worklet" THEN proc.compiled ELSE ext.scriptCompiledFunc

\* the logical rate that backend steps its clock by, and the clock itself
ActiveRate == IF ext.node = "worklet" THEN proc.logicalS ELSE Max(1, ext.logicalSampleRate)
ActiveClock == IF ext.node = "worklet" THEN proc.t ELSE ext.t

\* the recording mode of that backend
BackendRecording ==
    \/ ext.node = "worklet" /\ proc.recording
    \/ ext.node = "script" /\ ext.scriptRecording

\* a text the safety policy forbids: a forbidden word in it, or too long
Unsafe(text) ==
    \/ \E i \in 1..Len(text) : text[i] \in forbidden
    \/ Len(text) > MaxFormulaLength

PostedFormulas ==
    {toNode[i].formula : i \in {j \in 1..Len(toNode) : toNode[j].type = "setFormula"}}

C2_InstalledFunctionSmokeTested ==
    /\ proc.compiled # NoFunction => ~CallThrows(proc.compiled, 0)
    /\ ext.scriptCompiledFunc # NoFunction => ~CallThrows(ext.scriptCompiledFunc, 0)

\* C3: every step in which a backend replaces a failing formula by the fallback
\* formula (at compilation or in the sample loop) emits a diagnostic of that kind.
C3_FallbackEmitsDiagnostic == obs.trans \subseteq obs.diag

\* the time index of the i-th sample of the block just produced
BlockIndex(i) == Floor(ActiveClock - (Len(obs.block) - i + 1) * Increment(ActiveRate))

\* C4: when the compiled function throws at a sample, the raw result of that sample
\* is 0, the whole block is still produced, the samples after it are those of the
\* fallback formula, which stays installed, and the controller is still playing.
C4_RuntimeFailureFallsBack ==
    \A i \in 1..Len(obs.block) :
        obs.block[i].threw =>
            /\ obs.block[i].raw = 0
            /\ obs.block[i].out = Quantize(0, obs.block[i].vol)
            /\ Len(obs.block) = BlockLen
            /\ \A j \in (i + 1)..Len(obs.block) :
                   /\ ~obs.block[j].threw
                   /\ obs.block[j].raw = CallValue(ERROR_FALLBACK_FORMULA, BlockIndex(j))
            /\ ActiveCompiled = ERROR_FALLBACK_FORMULA
            /\ ext.isPlaying
            /\ ext.node # "none"

\* C4 witness: the function threw at a sample that is not the last of its block
C4_Witness ==
    \E i \in 1..(Len(obs.block) - 1) : obs.block[i].threw

\* C5: a block produced by a backend that has no compiled function is silence:
\* every sample of it is zero, at every volume.
C5_NoFunctionIsSilence ==
    (obs.block # <<>> /\ ActiveCompiled = NoFunction) =>
        \A i \in 1..Len(obs.block) : obs.block[i].out = 0

\* C6: stop() leaves the controller not playing and without a node, whatever is in
\* flight, and stop() on a controller that is not playing changes nothing.
C6_StopTearsDownIdempotent ==
    [][Stop => /\ ~ext'.isPlaying
               /\ ext'.node = "none"
               /\ (~ext.isPlaying => UNCHANGED <<ext, proc, toNode, fromNode, calls>>)]_vars

\* C6 witness: the controller was stopped while messages of the worklet are in flight
C6_Witness ==
    /\ ~ext.isPlaying
    /\ ext.node = "none"
    /\ ext.audioCtx
    /\ fromNode # <<>>

\* C7: the recording flag is set only while the controller is playing.
C7_RecordingOnlyWhilePlaying == ext.recording => ext.isPlaying

\* C8: the WAV that recordStopSave exports at the end of a recording (one begun by
\* recordStart and not discarded by the limit) holds every sample the backends put
\* in their record buffers since that recordStart, the trailing partial chunk included.
C8_ExportHoldsAllRecorded ==
    [][(obs'.wav # NoWav /\ ghost.begun /\ ~ghost.limitHit)
           => obs'.wav = MakeWavBlob(ghost.pushed, env.sampleRate)]_vars

\* C9: recordStopSave exports a WAV only if recordStart was called since the last
\* recordStopSave.
C9_NoExportWithoutBegin == [][obs'.wav # NoWav => ghost.begun]_vars

\* C10: the accumulated recording never stays above the maximum, and once the limit
\* was hit and the backend has reacted to the forced record-off (nothing in flight,
\* backend not recording) the accumulated recording is empty.
C10_LimitClearsRecording ==
    /\ Len(ext.recordedSamples) <= RecordMaxSamples
    /\ (ghost.limitHit /\ toNode = <<>> /\ fromNode = <<>> /\ ~BackendRecording)
           => Len(ext.recordedSamples) = 0

\* C11: a forced stop of the recording at the limit leaves the playback as it was:
\* playing state, node, formula, volume, logical rate and chunk size are the same
\* after the limit branch as before it.
C11_LimitStopsRecordingOnly == \A p \in obs.limit : p[1] = p[2]

\* C11 witness: the limit was just hit while playing, and the recording is off
C11_Witness ==
    /\ obs.limit # {}
    /\ ext.isPlaying
    /\ ext.node # "none"
    /\ ~ext.recording

\* C12: a backend never holds more un-flushed samples in its record buffer than its
\* current chunk size, also after setProperty lowered the chunk size while recording.
C12_RecordBufferWithinChunk ==
    /\ Len(proc.recordBuffer) <= proc.recordChunkSize
    /\ Len(ext.scriptRecordBuffer) <= ext.scriptRecordChunkSize

\* the playback parameters of the controller are within their ranges
ParametersInRange(e) ==
    /\ e.volume \in 0..MaxVolume
    /\ e.logicalSampleRate \in MinLogicalRate..MaxLogicalRate
    /\ e.preferredChunkSize \in MinChunkSize..MaxChunkSize

\* the parameter p that setProperty stores for the value v (in units of
\* 1/VolumeUnit) and the range lo..hi: the nearest bound for a value outside the
\* range, the nearest integer for one inside
StoredFor(p, v, lo, hi) ==
    /\ v > hi * VolumeUnit => p = hi
    /\ v < lo * VolumeUnit => p = lo
    /\ (lo * VolumeUnit <= v /\ v <= hi * VolumeUnit) =>
           (2 * (p * VolumeUnit - v) <= VolumeUnit /\ 2 * (v - p * VolumeUnit) <= VolumeUnit)

C14_OutputScaledByVolume ==
    \A i \in 1..Len(obs.block) :
        obs.block[i].out = ((obs.block[i].raw % 256) - 128) * ext.volume

\* C15: a Sample rate or Buffer size change while the script backend is active and
\* playing recreates it, so that its clock is 0 afterwards and its function is
\* compiled anew; while the worklet is active the same change leaves the node, its
\* function and its clock in place.
C15_RateAndSizeRecreateBlockBackend ==
    [][(/\ obs'.args # <<>>
        /\ PropertyOf(obs'.args[1]) \in {"Sample rate", "Buffer size"}
        /\ ext.isPlaying) =>
           /\ (ext.node = "script" /\ ~ext.usingWorklet) =>
                  /\ ext'.node = "script"
                  /\ ext'.t = 0
                  /\ ghost'.sclock = NoCount
           /\ (ext.node = "worklet" /\ ext.usingWorklet) =>
                  /\ ext'.node = "worklet"
                  /\ ext'.connected = ext.connected
                  /\ proc'.t = proc.t
                  /\ proc'.compiled = proc.compiled]_vars

\* the state of the script backend, laid out as that of a worklet processor
AsProcessor(e) ==
    [t |-> e.t, compiled |-> e.scriptCompiledFunc, recording |-> e.scriptRecording,
     recordBuffer |-> e.scriptRecordBuffer, recordChunkSize |-> e.scriptRecordChunkSize,
     volume |-> e.volume, logicalS |-> Max(1, e.logicalSampleRate)]

\* a worklet processor put in the state the script backend is in
Twin == [Main EXCEPT !.proc = AsProcessor(ext)]

\* formula updates with texts that compile and pass the smoke test, and record commands
Commands ==
    {SetFormulaMsg(<<"t">>), SetFormulaMsg(ERROR_FALLBACK_FORMULA),
     RecordMsg(TRUE), RecordMsg(FALSE)}

\* the time indices given to the formula and the samples written, of a block
BlockView(b) == [i \in 1..Len(b) |-> <<b[i].ti, b[i].out>>]

\* C16: from the same backend state the two backends react alike: the same command
\* leaves the same clock, function and recording state, and the next block has the
\* same time indices and the same samples.
C16_BackendsAgree ==
    (ext.node = "script" /\ ext.handleScriptMessage = "closure") =>
        /\ \A c \in Commands :
               AsProcessor(HandleScriptMessage(Main, c).ext) = ProcOnMessage(Twin, c).proc
        /\ BlockView(ProcessFunc(Main).obs.block) = BlockView(Process(Twin).obs.block)
        /\ AsProcessor(ProcessFunc(Main).ext) = Process(Twin).proc

\* C17: a startFormula call that comes back from its await ends with the controller
\* playing and holding a node, on the script backend where the worklet could not be
\* loaded, and without the alert of a failed start; it ends not playing only where
\* no script node can be created.
C17_WorkletFailureFallsBack ==
    [][(calls'.addModule + calls'.resume < calls.addModule + calls.resume) =>
           /\ env.scriptAvailable =>
                  /\ ext'.isPlaying
                  /\ ext'.node # "none"
                  /\ "alertNoScript" \notin obs'.diag
           /\ (env.scriptAvailable /\ ~ext.isPlaying /\ ~ext'.usingWorklet) =>
                  ext'.node = "script"
           /\ ~ext'.isPlaying =>
                  /\ ~env.scriptAvailable
                  /\ ~ext'.usingWorklet
                  /\ "alertNoScript" \in obs'.diag]_vars

\* C17 witness: the platform has worklets, addModule failed, and the controller is
\* playing on the script backend with no call suspended
C17_Witness ==
    /\ env.workletAvailable
    /\ ~ext.workletLoaded
    /\ ext.isPlaying
    /\ ext.node = "script"
    /\ calls.addModule + calls.resume = 0

\* C18: whenever the controller holds a node and every message posted to it has been
\* handled, the volume, logical rate and chunk size the backend works with are the
\* controller's.
C18_ParametersReachBackend ==
    (ext.node # "none" /\ toNode = <<>>) =>
        IF ext.node = "worklet"
        THEN /\ proc.volume = ext.volume
             /\ proc.logicalS = ext.logicalSampleRate
             /\ proc.recordChunkSize = ext.preferredChunkSize
        ELSE /\ (IF ext.volume = 0 THEN VolumeUnit ELSE ext.volume) = ext.volume
             /\ Max(1, ext.logicalSampleRate) = ext.logicalSampleRate
             /\ ext.scriptRecordChunkSize = ext.preferredChunkSize

\* C19: the quantized byte is the non-negative residue of raw modulo 256, for negative
\* raw results as well, and the sample is (byte / 128 - 1) times the gain: at gain 1
\* exactly -1 for a residue of 0 and exactly 255/128 - 1 for a residue of 255.
C19_QuantizedByteIsResidue ==
    \A i \in 1..Len(obs.block) :
        LET byte == obs.block[i].raw % 256
            out == obs.block[i].out
        IN /\ out = (byte - 128) * obs.block[i].vol
           /\ obs.block[i].vol = VolumeUnit =>
                  /\ 128 * out = (byte - 128) * SampleUnit
                  /\ (byte = 0 => out = 0 - SampleUnit)
                  /\ (byte = 255 => 128 * out = 127 * SampleUnit)

\* C19 witness: a negative raw result with residue 255, quantized at gain 1
C19_Witness ==
    \E i \in 1..Len(obs.block) :
        /\ obs.block[i].raw < 0
        /\ obs.block[i].raw % 256 = 255
        /\ obs.block[i].vol = VolumeUnit
        /\ 128 * obs.block[i].out = 127 * SampleUnit

\* the clock t, kept as ClockGrid * t, after the c.n samples of constant rate L is
\* exactly c.n * L / sampleRate, and its floor the floor of that
ExactTime(t, c) ==
    /\ c.n = 0 => t = 0
    /\ \A L \in c.rates : c.rates = {L} =>
           /\ t * env.sampleRate = ClockGrid * c.n * L
           /\ Floor(t) = (c.n * L) \div env.sampleRate

\* the same, up to the rounding of the increment: half a unit of 1/ClockGrid a sample
WithinTolerance(t, c) ==
    /\ c.n = 0 => t = 0
    /\ \A L \in c.rates : c.rates = {L} =>
           LET d == t * env.sampleRate - ClockGrid * c.n * L
           IN 2 * d <= c.n * env.sampleRate /\ 0 - 2 * d <= c.n * env.sampleRate

\* every sample of the block of this step was given the floor of the clock, and the
\* first of them the clock the step began with
IndexIsFloorOfClock ==
    /\ \A i \in 1..Len(obs'.block) : obs'.block[i].ti = obs'.block[i].clock \div ClockGrid
    /\ (obs'.block # <<>> /\ ext.node = "worklet") => obs'.block[1].clock = proc.t
    /\ (obs'.block # <<>> /\ ext.node = "script") => obs'.block[1].clock = ext.t

\* a clock decreases only by being set to 0
NeverDecreases ==
    /\ proc'.t < proc.t => (proc'.t = 0 /\ ghost'.wclock = NoCount)
    /\ ext'.t < ext.t => (ext'.t = 0 /\ ghost'.sclock = NoCount)

\* the resetTime message sets the clock of either backend to 0
ResetTimeSetsZero ==
    /\ ProcOnMessage(Main, [type |-> "resetTime"]).proc.t = 0
    /\ ext.handleScriptMessage = "closure" =>
           HandleScriptMessage(Main, [type |-> "resetTime"]).ext.t = 0

\* C20 as claimed: after N samples at constant rates L and P the clock is exactly
\* N*L/P and the next index floor(N*L/P); the clock never decreases between resets;
\* resetTime sets it to 0.
C20_ClockExact ==
    [][/\ ExactTime(proc'.t, ghost'.wclock)
       /\ ExactTime(ext'.t, ghost'.sclock)
       /\ IndexIsFloorOfClock
       /\ NeverDecreases
       /\ ResetTimeSetsZero]_vars

\* C20 amended: after N samples at constant rates L and P the clock is N*L/P up to
\* the rounding error accumulated over the N additions, and the index given to the
\* formula is the floor of the clock; the clock never decreases between resets;
\* resetTime sets it to 0.
C20_ClockWithinTolerance ==
    [][/\ WithinTolerance(proc'.t, ghost'.wclock)
       /\ WithinTolerance(ext'.t, ghost'.sclock)
       /\ IndexIsFloorOfClock
       /\ NeverDecreases
       /\ ResetTimeSetsZero]_vars

\* C20 witness: several samples at one rate, whose increment was rounded, so that
\* the floor of the clock is not the floor of N*L/P
C20_Witness ==
    /\ ghost.wclock.n >= 2
    /\ \E L \in ghost.wclock.rates :
           /\ ghost.wclock.rates = {L}
           /\ Floor(proc.t) # (ghost.wclock.n * L) \div env.sampleRate

\* a WAV header read back: DataView.getUint32 / getUint16 (little-endian) at a byte
\* offset, and the four characters at an offset
ReadUint32(b, off) == b[off + 1] + 256 * b[off + 2] + 65536 * b[off + 3] + 16777216 * b[off + 4]
ReadUint16(b, off) == b[off + 1] + 256 * b[off + 2]
ReadTag(b, off) == SubSeq(b, off + 1, off + 4)

\* the data length the header of a WAV reports
DataLength(b) == ReadUint32(b, 40)

\* C21: the encoder's output for N samples at rate R has 44 + 2N bytes and its header
\* reads back, little-endian, as RIFF size 36 + 2N, format tag 1, 1 channel, sample
\* rate R, byte rate 2R, block align 2, 16 bits per sample and data length 2N; the
\* same input encoded again gives the same bytes.
C21_WavHeaderDecodes ==
    obs.wav # NoWav =>
        LET N == Len(obs.args[1])
            R == obs.args[2]
            b == obs.wav
        IN /\ Len(b) = 44 + 2 * N
           /\ \A i \in 1..Len(b) : b[i] \in 0..255
           /\ ReadTag(b, 0) = RIFF
           /\ ReadUint32(b, 4) = 36 + 2 * N
           /\ ReadTag(b, 8) = WAVE
           /\ ReadTag(b, 12) = Fmt
           /\ ReadUint32(b, 16) = 16
           /\ ReadUint16(b, 20) = 1
           /\ ReadUint16(b, 22) = 1
           /\ ReadUint32(b, 24) = R
           /\ ReadUint32(b, 28) = 2 * R
           /\ ReadUint16(b, 32) = 2
           /\ ReadUint16(b, 34) = 16
           /\ ReadTag(b, 36) = Data
           /\ DataLength(b) = 2 * N
           /\ MakeWavBlob(obs.args[1], R) = b

\* C21 witness: the longest sample sequence was encoded at a rate of four
\* significant bytes
C21_Witness ==
    /\ obs.wav # NoWav
    /\ Len(obs.args[1]) = MaxWavLen
    /\ obs.args[2] > 16777216
    /\ Len(obs.wav) = 44 + 2 * MaxWavLen

\* the step is a recordStopSave: it exported a WAV or alerted that nothing was recorded
Exported == obs'.wav # NoWav \/ "alertEmpty" \in obs'.diag

\* C22: with the volume at 0.5, a recording begun and not discarded by the limit, and
\* at least chunkSize samples put in a record buffer since it began, recordStopSave
\* exports a WAV whose header reports a data length of at least 2 * chunkSize.
C22_ExportHoldsAChunk ==
    [][(/\ Exported
        /\ ghost.begun
        /\ ~ghost.limitHit
        /\ ext.volume = VolumeUnit \div 2
        /\ ext.node # "none"
        /\ Len(ghost.pushed) >= ext.preferredChunkSize) =>
           /\ obs'.wav # NoWav
           /\ DataLength(obs'.wav) >= 2 * ext.preferredChunkSize]_vars

\* every sample of a sequence is within [-1,1]
WithinUnit(samples) ==
    \A i \in 1..Len(samples) : 0 - SampleUnit <= samples[i] /\ samples[i] <= SampleUnit

\* C23: every sample stored in a record buffer of a backend or in the accumulated
\* recording of the controller lies in [-1,1], at every volume.
C23_StoredSamplesWithinUnit ==
    /\ WithinUnit(proc.recordBuffer)
    /\ WithinUnit(ext.scriptRecordBuffer)
    /\ WithinUnit(ext.recordedSamples)

\* C24: the WAV exported at the end of a recording holds only samples that a backend
\* put in its record buffer after the most recent recordStart: its samples are a
\* run of them, in their order.
C24_ExportIsFresh ==
    [][(obs'.wav # NoWav /\ ghost.begun) =>
           \E i \in 1..(Len(ghost.pushed) + 1), j \in 0..Len(ghost.pushed) :
               obs'.wav = MakeWavBlob(SubSeq(ghost.pushed, i, j), env.sampleRate)]_vars

\* a text that passes the safety policy, compiles and evaluates at every time index
Sound(text) ==
    /\ ~Unsafe(text)
    /\ ~NewFunctionThrows(text, env.evalAllowed)
    /\ \A i \in 1..Len(text) : text[i] \notin {"u", "r"}

\* nothing is in flight: no message in either direction, no startFormula suspended
Quiescent ==
    /\ toNode = <<>>
    /\ fromNode = <<>>
    /\ calls.addModule + calls.resume = 0

\* C25: when the formula given to the last startFormula is sound, nothing is in
\* flight any more, and the controller holds a node of the kind it posts to, the
\* backend runs that formula.
C25_FormulaUpdatesConverge ==
    (/\ Quiescent
     /\ ext.node # "none"
     /\ ext.usingWorklet = (ext.node = "worklet")
     /\ Sound(ext.formula)) =>
        ActiveCompiled = ext.formula

\* C26: whenever the controller holds a node, of the kind it posts to, and every
\* message posted to it has been handled, the recording mode of the backend is the
\* recording flag of the controller.
C26_RecordingModeAgrees ==
    (/\ ext.node # "none"
     /\ ext.usingWorklet = (ext.node = "worklet")
     /\ toNode = <<>>) =>
        BackendRecording = ext.recording

\* C27: whenever the controller holds a node, the backend kind it recorded
\* (_usingWorklet) is the kind of that node, so that _postToNode reaches it.
C27_BackendKindMatchesNode ==
    ext.node # "none" => ext.usingWorklet = (ext.node = "worklet")

\* C28: when stop() was called after the last startFormula and every startFormula
\* call has come back from its await, the controller is not playing and holds no node.
C28_StopWins ==
    (ghost.stopped /\ calls.addModule + calls.resume = 0) =>
        (~ext.isPlaying /\ ext.node = "none")

\* the samples of the recordChunk messages in flight, in their order
RECURSIVE Flight(_)
Flight(f) ==
    IF f = <<>> THEN <<>>
    ELSE (IF Head(f).type = "recordChunk" THEN Head(f).chunk ELSE <<>>) \o Flight(Tail(f))

\* the recorded samples wherever they are: accumulated by the controller, in flight
\* to it, or still in the record buffer of a backend
Held(e, f, p) == e.recordedSamples \o Flight(f) \o p.recordBuffer \o e.scriptRecordBuffer

\* C29: during a recording that the limit has not discarded, a step of the platform
\* or a setProperty (a Buffer size change that recreates the script backend
\* included) keeps every recorded sample once and in order: the samples held after
\* it are those held before it, followed by the samples the step generated.
C29_SamplesDeliveredOnce ==
    [][(/\ ghost.begun
        /\ ghost'.begun
        /\ ~ghost'.limitHit
        /\ ext.usingWorklet = (ext.node = "worklet")
        /\ (ghost'.ops = ghost.ops \/ obs'.args # <<>>)) =>
           Held(ext', fromNode', proc') =
               Held(ext, fromNode, proc)
                   \o SubSeq(ghost'.pushed, Len(ghost.pushed) + 1, Len(ghost'.pushed))]_vars

\* C30: at most one node is connected to the destination, and the controller is
\* playing exactly when it holds a node, which is then the connected one.
C30_OneNodeWhilePlaying ==
    /\ ext.connected \in {0, 1}
    /\ ext.isPlaying <=> ext.node # "none"
    /\ ext.connected = (IF ext.node # "none" THEN 1 ELSE 0)

\* the powers of two, up to the first one above every word
PowersOfTwo == {2 ^ k : k \in 0..WordBits}

\* p is the smallest power of two that is at least n
SmallestPowerAtLeast(p, n) ==
    /\ p \in PowersOfTwo
    /\ p >= n
    /\ \A q \in PowersOfTwo : q >= n => p <= q

\* C31: for every word n, nextPowerOfTwo(n) returns, and what it returns is the
\* smallest power of two that is at least n (1 for n <= 1).
C31_NextPowerOfTwoReturns ==
    /\ <>(fft.pc = "return")
    /\ [](fft.pc = "return" => SmallestPowerAtLeast(fft.ret, fft.n))

\* C32: the player is playing exactly when it holds a script node, which is then the
\* one node connected; while it is not playing its time index is 0; and a
\* startBytebeat while playing changes nothing, so that no second node is made.
C32_PlayerOneNodeWhilePlaying ==
    [][/\ player'.playing <=> player'.scriptNode
       /\ player'.connected = (IF player'.playing THEN 1 ELSE 0)
       /\ ~player'.playing => player'.t = 0
       /\ (player.playing /\ player'.playing /\ player'.blocks = player.blocks) =>
              player' = player]_vars

\* C32 witness: the player was started again after audio blocks had run and it had
\* been stopped; it is playing on one node, its clock back at 0
C32_Witness ==
    /\ player.playing
    /\ player.connected = 1
    /\ player.blocks >= 1
    /\ player.t = 0

====
